---- MODULE Spec2Model ----
(***************************************************************************)
(* Model of skills/pdf-to-markdown/scripts/extract_pdf.py: the metrics     *)
(* accumulator and its fetch score, the per-page extraction pipeline, the  *)
(* optional LLM enhancement and main.                                      *)
(*                                                                         *)
(* Numbers.  The program computes scores in binary floating point.  The    *)
(* model computes them exactly, as integer multiples of 1/Unit of a score  *)
(* point: Pts(85) is 85.0, Tenths(925) is 92.5, and a confidence c in      *)
(* [0,1] is the integer c*Unit.  Unit is chosen so that every quotient the *)
(* program forms (pages_with_text / total_pages, the 0.4/0.3/0.3 weights)  *)
(* is exact.  round(x, 1) is modelled as round-half-even on the exact      *)
(* value.                                                                  *)
(*                                                                         *)
(* Strings are sequences of one-character strings, so that strip, split,   *)
(* join, slicing and the regular expressions are computed character by     *)
(* character.  A warning f"Page {n}: {msg}" is the record of n and msg.    *)
(*                                                                         *)
(* Three specifications share the state: Spec (FairSpec with fairness) is  *)
(* a run of main; SpecScore applies calculate_fetch_score to enumerated    *)
(* metrics snapshots; SpecEnhance applies enhance_with_llm to enumerated   *)
(* markdown bodies.                                                        *)
(***************************************************************************)
EXTENDS Integers, Sequences, FiniteSets, TLC

\* ---------------------------------------------------------------- bounds
MaxPages == 2        \* total_pages of an enumerated metrics snapshot
MaxCount == 1        \* tables_extracted / images_extracted of a snapshot
MaxWarnings == 7     \* len(warnings) of an enumerated snapshot
ConfDen == 13        \* confidences of a snapshot are k/ConfDen, k in 0..ConfDen
MaxDocPages == 2     \* pages of the document given to extract
MaxShort == 3        \* length of the short bodies given to enhance_with_llm
MaxExcess == 2       \* bodies are up to max_chars + MaxExcess characters long
MaxRows == 2         \* rows of a table given to _table_to_markdown
MaxCols == 2         \* cells of a row of such a table
MaxLines == 2        \* lines of a text given to _format_text

\* ------------------------------------------------------------ arithmetic
RECURSIVE Fact(_)
Fact(n) == IF n <= 1 THEN 1 ELSE n * Fact(n - 1)

Unit == 10 * ConfDen * Fact(MaxPages) * Fact(MaxDocPages)
Pts(x) == x * Unit
Tenths(x) == x * (Unit \div 10)

Min(a, b) == IF a <= b THEN a ELSE b
Max(a, b) == IF a >= b THEN a ELSE b

\* round(x, 1): the nearest multiple of 0.1, ties to the even tenth
Round1(x) ==
    LET q == (10 * x) \div Unit
        r == (10 * x) % Unit
        t == IF 2 * r < Unit THEN q
             ELSE IF 2 * r > Unit THEN q + 1
             ELSE IF q % 2 = 0 THEN q ELSE q + 1
    IN  Tenths(t)

\* ------------------------------------------------------ ExtractionMetrics
ExtractionMetrics ==
    [total_pages |-> 0, pages_with_text |-> 0, pages_with_tables |-> 0,
     pages_with_images |-> 0, tables_extracted |-> 0, images_extracted |-> 0,
     ocr_pages |-> 0, llm_enhanced |-> FALSE, text_confidence |-> 0,
     structure_confidence |-> 0, warnings |-> <<>>]

\* scores['text_extraction'] without the upper clamp
text_extraction_unclamped(m) ==
    IF m.total_pages > 0
    THEN ((m.pages_with_text * Unit) \div m.total_pages) * 100
         + m.text_confidence * 20
    ELSE 0

\* scores['text_extraction']
text_extraction(m) ==
    IF m.total_pages > 0
    THEN Min(Pts(100),
             ((m.pages_with_text * Unit) \div m.total_pages) * 100
             + m.text_confidence * 20)
    ELSE 0

\* scores['structure_preservation'] with the table bonus taken as 35
structure_preservation_bonus35(m) ==
    LET structure_score ==
            50 + (IF m.tables_extracted > 0 THEN 35 ELSE 0)
               + (IF m.images_extracted > 0 THEN 15 ELSE 0)
               + (IF m.llm_enhanced THEN 10 ELSE 0)
    IN  Min(Pts(100), Pts(structure_score) + m.structure_confidence * 20)

\* scores['structure_preservation']
structure_preservation(m) ==
    LET structure_score ==
            50 + (IF m.tables_extracted > 0 THEN 25 ELSE 0)
               + (IF m.images_extracted > 0 THEN 15 ELSE 0)
               + (IF m.llm_enhanced THEN 10 ELSE 0)
    IN  Min(Pts(100), Pts(structure_score) + m.structure_confidence * 20)

\* scores['completeness'] with an unsaturated warning penalty
completeness_unsaturated(m) ==
    LET ocr_penalty ==
            IF m.ocr_pages > 0 /\ m.ocr_pages = m.total_pages THEN 20 ELSE 0
        warn_penalty ==
            IF Len(m.warnings) > 0 THEN Len(m.warnings) * 5 ELSE 0
    IN  Max(0, Pts(100 - ocr_penalty - warn_penalty))

\* scores['completeness']
completeness(m) ==
    LET ocr_penalty ==
            IF m.ocr_pages > 0 /\ m.ocr_pages = m.total_pages THEN 20 ELSE 0
        warn_penalty ==
            IF Len(m.warnings) > 0 THEN Min(30, Len(m.warnings) * 5) ELSE 0
    IN  Max(0, Pts(100 - ocr_penalty - warn_penalty))

\* the weighted sum, before rounding
overall(m) ==
    (4 * text_extraction(m) + 3 * structure_preservation(m)
       + 3 * completeness(m)) \div 10

_score_to_grade(score) ==
    IF score >= Pts(90) THEN "A - Excellent"
    ELSE IF score >= Pts(80) THEN "B - Good"
    ELSE IF score >= Pts(70) THEN "C - Acceptable"
    ELSE IF score >= Pts(60) THEN "D - Fair"
    ELSE "F - Poor"

calculate_fetch_score(m) ==
    [overall_score |-> Round1(overall(m)),
     components |->
        [text_extraction |-> Round1(text_extraction(m)),
         structure_preservation |-> Round1(structure_preservation(m)),
         completeness |-> Round1(completeness(m))],
     grade |-> _score_to_grade(overall(m)),
     total_pages |-> m.total_pages,
     tables_found |-> m.tables_extracted,
     images_found |-> m.images_extracted,
     ocr_required |-> m.ocr_pages > 0,
     llm_enhanced |-> m.llm_enhanced,
     warnings |-> m.warnings]

\* the value of fetch_score before any score has been calculated
NoScore == calculate_fetch_score(ExtractionMetrics)

\* ---------------------------------------------------------------- strings
\* None, where the program may hold None in place of a string, a row or a
\* table: a function that is no sequence, so it differs from every string,
\* row and table whatever their length
None == [i \in {0} |-> "None"]

Whitespace == {" ", "\n", "\t"}
UpperCase == <<"A","B","C","D","E","F","G","H","I","J","K","L","M",
               "N","O","P","Q","R","S","T","U","V","W","X","Y","Z">>
LowerCase == <<"a","b","c","d","e","f","g","h","i","j","k","l","m",
               "n","o","p","q","r","s","t","u","v","w","x","y","z">>
DigitChars == <<"0","1","2","3","4","5","6","7","8","9">>

Range(f) == { f[i] : i \in DOMAIN f }
IsUpper(c) == c \in Range(UpperCase)
IsLower(c) == c \in Range(LowerCase)
IsLetter(c) == IsUpper(c) \/ IsLower(c)
IndexOf(c, alphabet) == CHOOSE i \in DOMAIN alphabet : alphabet[i] = c
ToUpper(c) == IF IsLower(c) THEN UpperCase[IndexOf(c, LowerCase)] ELSE c
ToLower(c) == IF IsUpper(c) THEN LowerCase[IndexOf(c, UpperCase)] ELSE c

\* str(n) for a non-negative integer
RECURSIVE str(_)
str(n) == IF n < 10 THEN <<DigitChars[n + 1]>>
          ELSE str(n \div 10) \o <<DigitChars[(n % 10) + 1]>>

\* s[k:] for 0 <= k
Drop(s, k) == IF k >= Len(s) THEN <<>> ELSE SubSeq(s, k + 1, Len(s))

\* s.strip()
RECURSIVE lstrip(_)
lstrip(s) == IF s # <<>> /\ Head(s) \in Whitespace THEN lstrip(Tail(s)) ELSE s
RECURSIVE rstrip(_)
rstrip(s) == IF s # <<>> /\ s[Len(s)] \in Whitespace
             THEN rstrip(SubSeq(s, 1, Len(s) - 1)) ELSE s
strip(s) == rstrip(lstrip(s))

\* sep.join(parts)
RECURSIVE join(_, _)
join(sep, parts) ==
    IF parts = <<>> THEN <<>>
    ELSE IF Len(parts) = 1 THEN parts[1]
    ELSE parts[1] \o sep \o join(sep, Tail(parts))

\* s.split('\n')
RECURSIVE split_lines(_)
split_lines(s) ==
    IF \A i \in DOMAIN s : s[i] # "\n" THEN <<s>>
    ELSE LET k == CHOOSE i \in DOMAIN s :
                      s[i] = "\n" /\ \A j \in 1..(i - 1) : s[j] # "\n"
         IN  <<SubSeq(s, 1, k - 1)>> \o split_lines(Drop(s, k))

\* s.isupper(): at least one cased character and no lower-case one
isupper(s) ==
    /\ \E i \in DOMAIN s : IsUpper(s[i])
    /\ \A i \in DOMAIN s : ~IsLower(s[i])

\* s.title(): a letter is upper-cased after a non-letter, lower-cased after
\* a letter
title(s) ==
    [i \in DOMAIN s |->
        IF ~IsLetter(s[i]) THEN s[i]
        ELSE IF i = 1 \/ ~IsLetter(s[i - 1]) THEN ToUpper(s[i])
        ELSE ToLower(s[i])]

\* the length of the longest prefix of s whose characters are all in cls
RECURSIVE Span(_, _)
Span(s, cls) == IF s # <<>> /\ Head(s) \in cls THEN 1 + Span(Tail(s), cls)
                ELSE 0

DigitOrDot == Range(DigitChars) \cup {"."}
\* the character class of the bullet pattern, as the source file spells it:
\* three non-ASCII characters (written here by code point), '-' and '*'
BulletGlyphs == {"U+201A", "U+00C4", "U+00A2", "-", "*"}

\* re.match(r'^[\d.]+\s+[A-Z]', s)
MatchesNumberedHeader(s) ==
    LET d == Span(s, DigitOrDot)
        w == Span(Drop(s, d), Whitespace)
    IN  d >= 1 /\ w >= 1 /\ Len(s) > d + w /\ IsUpper(s[d + w + 1])

\* re.match(r'^[...]\s+', s) for the bullet glyph class
MatchesBullet(s) ==
    Len(s) >= 2 /\ s[1] \in BulletGlyphs /\ s[2] \in Whitespace

\* re.match(r'^\d+\.\s+', s)
MatchesNumberedList(s) ==
    LET d == Span(s, Range(DigitChars))
    IN  d >= 1 /\ Len(s) >= d + 2 /\ s[d + 1] = "." /\ s[d + 2] \in Whitespace

\* one iteration of the loop with the bullet test moved before the header
\* tests
format_line_bullet_first(line) ==
    LET stripped == strip(line)
    IN  IF stripped = <<>> THEN <<>>
        ELSE IF MatchesBullet(stripped)
             THEN <<"-", " ">> \o strip(Drop(stripped, 2))
        ELSE IF Len(stripped) < 80 /\ isupper(stripped)
             THEN <<"#", "#", " ">> \o title(stripped)
        ELSE IF MatchesNumberedHeader(stripped)
             THEN <<"#", "#", "#", " ">> \o stripped
        ELSE IF MatchesNumberedList(stripped) THEN stripped
        ELSE stripped

\* one iteration of the loop of _format_text
format_line(line) ==
    LET stripped == strip(line)
    IN  IF stripped = <<>> THEN <<>>
        ELSE IF Len(stripped) < 80 /\ isupper(stripped)
             THEN <<"#", "#", " ">> \o title(stripped)
        ELSE IF MatchesNumberedHeader(stripped)
             THEN <<"#", "#", "#", " ">> \o stripped
        ELSE IF MatchesBullet(stripped)
             THEN <<"-", " ">> \o strip(Drop(stripped, 2))
        ELSE IF MatchesNumberedList(stripped) THEN stripped
        ELSE stripped

_format_text(text) ==
    LET lines == split_lines(text)
    IN  join(<<"\n">>, [i \in DOMAIN lines |-> format_line(lines[i])])

\* bool(x) for a string, a row or a table that may be None
Truthy(x) == x # None /\ x # <<>>

\* the rows of _table_to_markdown's cleaned_table, before padding
RECURSIVE clean_rows(_)
clean_rows(table) ==
    IF table = <<>> THEN <<>>
    ELSE LET row == Head(table)
         IN  (IF Truthy(row)
              THEN << [c \in DOMAIN row |->
                          IF Truthy(row[c]) THEN strip(row[c]) ELSE <<>>] >>
              ELSE <<>>) \o clean_rows(Tail(table))

RECURSIVE SeqMax(_)
SeqMax(ns) == IF ns = <<>> THEN 0 ELSE Max(Head(ns), SeqMax(Tail(ns)))

table_line(row) == <<"|", " ">> \o join(<<" ", "|", " ">>, row) \o <<" ", "|">>

_table_to_markdown(table) ==
    IF ~Truthy(table) THEN <<>>
    ELSE LET cleaned == clean_rows(table)
         IN  IF cleaned = <<>> THEN <<>>
             ELSE LET max_cols == SeqMax([r \in DOMAIN cleaned |->
                                              Len(cleaned[r])])
                      cleaned_table ==
                          [r \in DOMAIN cleaned |->
                              [c \in 1..max_cols |->
                                  IF c <= Len(cleaned[r]) THEN cleaned[r][c]
                                  ELSE <<>>]]
                      header == table_line(cleaned_table[1])
                      rule == table_line([c \in 1..max_cols |->
                                              <<"-", "-", "-">>])
                      md_lines == <<header, rule>> \o
                          [r \in 1..(Len(cleaned_table) - 1) |->
                              table_line(cleaned_table[r + 1])]
                  IN  join(<<"\n">>, md_lines)

\* ------------------------------------------------------------ extraction
\* "<!-- Page "
PageMarkerOpen ==
    <<"<", "!", "-", "-", " ", "P", "a", "g", "e", " ">>
\* " -->"
CommentClose == <<" ", "-", "-", ">">>
\* f"<!-- Page {page_num} -->"
PageMarker(page_num) == PageMarkerOpen \o str(page_num) \o CommentClose
\* "<!-- OCR extracted -->\n"
OcrMarker ==
    <<"<", "!", "-", "-", " ", "O", "C", "R", " ", "e", "x", "t", "r",
          "a", "c", "t", "e", "d", " ", "-", "-", ">", "\n">>
\* f"![Image {page_num}.{i}](image_p{page_num}_{i}.png)", i counted from 1
ImageRef(page_num, i) ==
    <<"!", "[", "I", "m", "a", "g", "e", " ">> \o str(page_num) \o <<".">>
    \o str(i) \o <<"]", "(", "i", "m", "a", "g", "e", "_", "p">>
    \o str(page_num) \o <<"_">> \o str(i) \o <<".", "p", "n", "g", ")">>
\* "\n\n", the separator of the parts of one page
PartSep == <<"\n", "\n">>
\* "\n\n---\n\n", the separator of the pages
PageBreak == <<"\n", "\n", "-", "-", "-", "\n", "\n">>

\* a warning f"Page {page_num}: {msg}"
Warning(page_num, msg) == [page |-> page_num, msg |-> msg]

\* _try_ocr without its "except Exception" clause
_try_ocr_uncaught(m, ocr, page_num) ==
    IF ocr.kind = "ImportError"
    THEN [text |-> None, raised |-> FALSE,
          metrics |-> [m EXCEPT !.warnings = Append(@,
                          Warning(page_num, "OCR libraries not available"))]]
    ELSE IF ocr.kind = "Exception"
    THEN [text |-> None, raised |-> TRUE, metrics |-> m]
    ELSE IF ocr.kind = "Text" /\ Truthy(ocr.text) /\ strip(ocr.text) # <<>>
    THEN [text |-> _format_text(ocr.text), raised |-> FALSE, metrics |-> m]
    ELSE [text |-> None, raised |-> FALSE, metrics |-> m]

\* _try_ocr.  ocr is what the OCR collaborator does for this page: the
\* import fails ("ImportError"), convert_from_path or image_to_string raises
\* ("Exception"), no image comes back ("NoImage"), or text comes back
\* ("Text").  Returns the value returned, the metrics, and whether an
\* exception left the method.
_try_ocr(m, ocr, page_num) ==
    IF ocr.kind = "ImportError"
    THEN [text |-> None, raised |-> FALSE,
          metrics |-> [m EXCEPT !.warnings = Append(@,
                          Warning(page_num, "OCR libraries not available"))]]
    ELSE IF ocr.kind = "Exception"
    THEN [text |-> None, raised |-> FALSE,
          metrics |-> [m EXCEPT !.warnings = Append(@,
                          Warning(page_num, "OCR failed"))]]
    ELSE IF ocr.kind = "Text" /\ Truthy(ocr.text) /\ strip(ocr.text) # <<>>
    THEN [text |-> _format_text(ocr.text), raised |-> FALSE, metrics |-> m]
    ELSE [text |-> None, raised |-> FALSE, metrics |-> m]

\* step 1 of _extract_page with the OCR fallback tried on every page
extract_page_text_always_ocr(m, page, page_num) ==
    LET r == _try_ocr(m, page.ocr, page_num)
    IN  IF Truthy(page.text) /\ strip(page.text) # <<>>
        THEN [parts |-> <<_format_text(page.text)>>, raised |-> FALSE,
              ocr_called |-> TRUE,
              metrics |-> [r.metrics EXCEPT !.pages_with_text = @ + 1]]
        ELSE IF Truthy(r.text)
        THEN [parts |-> <<OcrMarker \o r.text>>, raised |-> FALSE,
              ocr_called |-> TRUE,
              metrics |-> [r.metrics EXCEPT !.ocr_pages = @ + 1,
                                            !.pages_with_text = @ + 1]]
        ELSE [parts |-> <<>>, raised |-> FALSE, ocr_called |-> TRUE,
              metrics |-> [r.metrics EXCEPT !.warnings = Append(@,
                              Warning(page_num, "No text extracted"))]]

\* step 1 of _extract_page: the text, or the OCR fallback; ocr_called tells
\* whether _try_ocr was called
extract_page_text(m, page, page_num) ==
    IF Truthy(page.text) /\ strip(page.text) # <<>>
    THEN [parts |-> <<_format_text(page.text)>>, raised |-> FALSE,
          ocr_called |-> FALSE,
          metrics |-> [m EXCEPT !.pages_with_text = @ + 1]]
    ELSE LET r == _try_ocr(m, page.ocr, page_num)
         IN  IF r.raised THEN [parts |-> <<>>, raised |-> TRUE,
                               ocr_called |-> TRUE, metrics |-> r.metrics]
             ELSE IF Truthy(r.text)
             THEN [parts |-> <<OcrMarker \o r.text>>, raised |-> FALSE,
                   ocr_called |-> TRUE,
                   metrics |-> [r.metrics EXCEPT !.ocr_pages = @ + 1,
                                                 !.pages_with_text = @ + 1]]
             ELSE [parts |-> <<>>, raised |-> FALSE, ocr_called |-> TRUE,
                   metrics |-> [r.metrics EXCEPT !.warnings = Append(@,
                                   Warning(page_num, "No text extracted"))]]

\* the tables of tables that pass "if table and len(table) > 0"
NonEmptyTables(tables) == SelectSeq(tables, Truthy)

\* step 2 of _extract_page with pages_with_tables counted once per table
extract_page_tables_per_table(m, page) ==
    IF Truthy(page.tables)
    THEN LET kept == NonEmptyTables(page.tables)
         IN  [parts |-> [t \in DOMAIN kept |->
                            <<"\n">> \o _table_to_markdown(kept[t])
                            \o <<"\n">>],
              metrics |-> [m EXCEPT !.pages_with_tables = @ + Len(kept),
                                    !.tables_extracted = @ + Len(kept)]]
    ELSE [parts |-> <<>>, metrics |-> m]

\* step 2 of _extract_page: the tables
extract_page_tables(m, page) ==
    IF Truthy(page.tables)
    THEN LET kept == NonEmptyTables(page.tables)
         IN  [parts |-> [t \in DOMAIN kept |->
                            <<"\n">> \o _table_to_markdown(kept[t])
                            \o <<"\n">>],
              metrics |-> [m EXCEPT !.pages_with_tables = @ + 1,
                                    !.tables_extracted = @ + Len(kept)]]
    ELSE [parts |-> <<>>, metrics |-> m]

\* step 3 of _extract_page: the images
extract_page_images(m, page, page_num) ==
    IF page.images > 0
    THEN [parts |-> [i \in 1..page.images |->
                        <<"\n">> \o ImageRef(page_num, i) \o <<"\n">>],
          metrics |-> [m EXCEPT !.pages_with_images = @ + 1,
                                !.images_extracted = @ + page.images]]
    ELSE [parts |-> <<>>, metrics |-> m]

_extract_page(m, page, page_num) ==
    LET t == extract_page_text(m, page, page_num)
        b == extract_page_tables(t.metrics, page)
        g == extract_page_images(b.metrics, page, page_num)
        parts == <<PageMarker(page_num)>> \o t.parts \o b.parts \o g.parts
    IN  [page_md |-> join(PartSep, parts), raised |-> t.raised,
         ocr_called |-> t.ocr_called,
         metrics |-> IF t.raised THEN t.metrics ELSE g.metrics]

\* the body of extract's loop, inserting at the front of the list
collect_fragment_front(markdown_parts, page_md) ==
    IF strip(page_md) # <<>> THEN <<page_md>> \o markdown_parts
    ELSE markdown_parts

\* the body of extract's loop after _extract_page returned
collect_fragment(markdown_parts, page_md) ==
    IF strip(page_md) # <<>> THEN Append(markdown_parts, page_md)
    ELSE markdown_parts

\* "Calculate final metrics" of extract
finalize_confidence(m) ==
    IF m.pages_with_text > 0
    THEN [m EXCEPT !.text_confidence =
                      Min(Unit, (m.pages_with_text * Unit) \div m.total_pages)]
    ELSE m

\* ------------------------------------------------------------ enhancement
max_chars == 100000
\* "\n\n<!-- Content truncated for LLM processing -->"
TruncationMarker ==
    <<"\n", "\n", "<", "!", "-", "-", " ", "C", "o", "n", "t", "e", "n",
          "t", " ", "t", "r", "u", "n", "c", "a", "t", "e", "d", " ",
          "f", "o", "r", " ", "L", "L", "M", " ", "p", "r", "o", "c",
          "e", "s", "s", "i", "n", "g", " ", "-", "-", ">">>

\* enhance_with_llm.  llm is what the LLM collaborator does: the import
\* fails ("ImportError"), the client cannot be constructed ("ClientError"),
\* the request or the unpacking of its answer raises ("CallError"), or an
\* answer comes back ("Response").
enhance_with_llm(markdown, llm) ==
    IF llm.kind \in {"ImportError", "ClientError"} THEN markdown
    ELSE LET sent == IF Len(markdown) > max_chars
                     THEN SubSeq(markdown, 1, max_chars) \o TruncationMarker
                     ELSE markdown
         IN  IF llm.kind = "CallError" THEN sent ELSE llm.text

\* generate_report: the markdown followed by the score section, which
\* interpolates these values, and by the warnings list if there are warnings
generate_report(markdown, score) ==
    [markdown |-> markdown,
     overall_score |-> score.overall_score,
     grade |-> score.grade,
     components |-> score.components,
     total_pages |-> score.total_pages,
     tables_found |-> score.tables_found,
     images_found |-> score.images_found,
     ocr_required |-> score.ocr_required,
     llm_enhanced |-> score.llm_enhanced,
     warnings_section |-> score.warnings # <<>>,
     warnings |-> score.warnings]

\* ------------------------------------------------------------------ state
VARIABLES
    pc,               \* position of the run
    args,             \* main's parsed arguments
    doc_pages,        \* len(pdf.pages) of the document
    page_num,         \* extract's loop counter
    pages,            \* what the backend and OCR gave for each page so far,
                      \* and whether the OCR fallback was called for it
    metrics,          \* the ExtractionMetrics instance
    markdown_parts,   \* extract's list of page fragments
    markdown_content, \* the markdown extract returned
    markdown,         \* main's markdown
    fetch_score,      \* the dict returned by calculate_fetch_score
    llm_result,       \* what the LLM collaborator did, "none" if not invoked
    output,           \* what main printed or wrote
    raw_table,        \* the table given to _table_to_markdown
    table_md,         \* what _table_to_markdown returned
    raw_text,         \* the text given to _format_text
    formatted_text    \* what _format_text returned

vars == <<pc, args, doc_pages, page_num, pages, metrics, markdown_parts,
          markdown_content, markdown, fetch_score, llm_result, output,
          raw_table, table_md, raw_text, formatted_text>>

\* the variables of the functions applied on their own
fn_vars == <<raw_table, table_md, raw_text, formatted_text>>
\* the variables of a run of main
main_vars == <<args, doc_pages, page_num, pages, metrics, markdown_parts,
               markdown_content, markdown, fetch_score, llm_result, output>>

NoOutput == [kind |-> "none"]

\* ------------------------------------------------------------ the inputs
\* "HI\n- a": an upper-case line and a bullet line
PlainText == <<"H", "I", "\n", "-", " ", "a">>
\* text of extract_text that is empty after trimming
BlankText == <<" ", "\n">>
\* what pytesseract may return
OcrTexts == { <<" ", "\n">>, <<"o", "k">> }
OcrOutcomes ==
    { [kind |-> k, text |-> <<>>] : k \in {"ImportError", "Exception", "NoImage"} }
    \cup { [kind |-> "Text", text |-> t] : t \in OcrTexts }
NotInvoked == [kind |-> "NotInvoked", text |-> <<>>]
\* [["A","B"],["1"]] and [None, [None, " x "]]
Table1 == << << <<"A">>, <<"B">> >>, << <<"1">> >> >>
Table2 == << None, << None, <<" ", "x", " ">> >> >>
TableLists == { <<>>, << <<>> >>, <<Table1, Table2>> }
ImageCounts == {0, 2}

\* a page: the text of extract_text (None for no text), what OCR would do
\* if called ("NotInvoked" on the pages whose text is not blank),
\* the list of extract_tables, the number of entries of page.images (a page
\* without text has images only next to its two tables)
PageInputs ==
    { [text |-> PlainText, ocr |-> NotInvoked, tables |-> tb, images |-> im] :
          tb \in TableLists, im \in ImageCounts }
    \cup
    { [text |-> BlankText, ocr |-> o, tables |-> <<>>, images |-> 0] :
          o \in { [kind |-> "ImportError", text |-> <<>>],
                  [kind |-> "Text", text |-> <<"o", "k">>] } }
    \cup
    { [text |-> None, ocr |-> o, tables |-> c.tables, images |-> c.images] :
          o \in OcrOutcomes,
          c \in { x \in [tables : TableLists, images : ImageCounts] :
                      x.images = 0 \/ Len(x.tables) = 2 } }

\* what the anthropic client may do
LLMOutcomes ==
    { [kind |-> k, text |-> <<>>] : k \in {"ImportError", "ClientError", "CallError"} }
    \cup { [kind |-> "Response", text |-> <<"#", " ", "T">>] }

\* ------------------------------------------------------------------- main
Init ==
    /\ pc = "main"
    /\ args \in [llm_enhance : BOOLEAN, score_only : BOOLEAN]
    /\ doc_pages \in 0..MaxDocPages
    /\ page_num = 0
    /\ pages = <<>>
    /\ metrics = ExtractionMetrics
    /\ markdown_parts = <<>>
    /\ markdown_content = <<>>
    /\ markdown = <<>>
    /\ fetch_score = NoScore
    /\ llm_result = "none"
    /\ output = NoOutput
    /\ raw_table = <<>>
    /\ table_md = <<>>
    /\ raw_text = <<>>
    /\ formatted_text = <<>>

\* extract, up to the loop: the document is opened, total_pages is set
Open ==
    /\ pc = "main"
    /\ metrics' = [metrics EXCEPT !.total_pages = doc_pages]
    /\ pc' = "pages"
    /\ UNCHANGED fn_vars
    /\ UNCHANGED <<args, doc_pages, page_num, pages, markdown_parts,
                   markdown_content, markdown, fetch_score, llm_result, output>>

\* one iteration of extract's loop
ExtractPage ==
    /\ pc = "pages"
    /\ page_num < doc_pages
    /\ \E page \in PageInputs :
          LET r == _extract_page(metrics, page, page_num + 1)
          IN  /\ page_num' = page_num + 1
              /\ pages' = Append(pages, [page_num |-> page_num + 1,
                                         page |-> page,
                                         ocr_called |-> r.ocr_called])
              /\ metrics' = r.metrics
              /\ IF r.raised
                 THEN pc' = "raised" /\ UNCHANGED markdown_parts
                 ELSE /\ pc' = "pages"
                      /\ markdown_parts' =
                             collect_fragment(markdown_parts, r.page_md)
    /\ UNCHANGED fn_vars
    /\ UNCHANGED <<args, doc_pages, markdown_content, markdown, fetch_score,
                   llm_result, output>>

\* extract, after the loop: join, final metrics, score, return to main
Finalize ==
    /\ pc = "pages"
    /\ page_num = doc_pages
    /\ markdown_content' = join(PageBreak, markdown_parts)
    /\ markdown' = markdown_content'
    /\ metrics' = finalize_confidence(metrics)
    /\ fetch_score' = calculate_fetch_score(metrics')
    /\ pc' = "extracted"
    /\ UNCHANGED fn_vars
    /\ UNCHANGED <<args, doc_pages, page_num, pages, markdown_parts,
                   llm_result, output>>

\* main's "if args.llm_enhance" block
MainEnhance ==
    /\ pc = "extracted"
    /\ args.llm_enhance
    /\ \E llm \in LLMOutcomes :
          /\ markdown' = enhance_with_llm(markdown, llm)
          /\ llm_result' = llm.kind
    /\ metrics' = [metrics EXCEPT !.llm_enhanced = TRUE]
    /\ fetch_score' = calculate_fetch_score(metrics')
    /\ pc' = "enhanced"
    /\ UNCHANGED fn_vars
    /\ UNCHANGED <<args, doc_pages, page_num, pages, markdown_parts,
                   markdown_content, output>>

AfterEnhanceBlock ==
    \/ pc = "extracted" /\ ~args.llm_enhance
    \/ pc = "enhanced"

\* main's "if args.score_only" block
ScoreOnly ==
    /\ AfterEnhanceBlock
    /\ args.score_only
    /\ output' = [kind |-> "json", score |-> fetch_score]
    /\ pc' = "done"
    /\ UNCHANGED fn_vars
    /\ UNCHANGED <<args, doc_pages, page_num, pages, metrics, markdown_parts,
                   markdown_content, markdown, fetch_score, llm_result>>

\* main's report: generate_report and write_text
WriteReport ==
    /\ AfterEnhanceBlock
    /\ ~args.score_only
    /\ output' = [kind |-> "file",
                  final_markdown |-> generate_report(markdown, fetch_score)]
    /\ pc' = "done"
    /\ UNCHANGED fn_vars
    /\ UNCHANGED <<args, doc_pages, page_num, pages, metrics, markdown_parts,
                   markdown_content, markdown, fetch_score, llm_result>>

Next == Open \/ ExtractPage \/ Finalize \/ MainEnhance \/ ScoreOnly
        \/ WriteReport

Spec == Init /\ [][Next]_vars

\* the program runs to completion: no step waits on anything
FairSpec == Spec /\ WF_vars(Next)

\* ------------------------------------------- the score as a pure function
\* warnings of an enumerated snapshot: w diagnostics
SomeWarnings(w) == [i \in 1..w |-> Warning(i, "No text extracted")]

\* the snapshot of the documented example (10 pages, all with text, 2 tables)
ExampleSnapshot ==
    [ExtractionMetrics EXCEPT !.total_pages = 10, !.pages_with_text = 10,
                              !.tables_extracted = 2,
                              !.text_confidence = Unit]

\* the snapshot with these counts, confidences tc/ConfDen and sc/ConfDen, and
\* w warnings
Snapshot(n, p, o, t, i, l, tc, sc, w) ==
    [total_pages |-> n, pages_with_text |-> p, pages_with_tables |-> 0,
     pages_with_images |-> 0, tables_extracted |-> t, images_extracted |-> i,
     ocr_pages |-> o, llm_enhanced |-> l,
     text_confidence |-> tc * (Unit \div ConfDen),
     structure_confidence |-> sc * (Unit \div ConfDen),
     warnings |-> SomeWarnings(w)]

\* the snapshots are those that satisfy the data-model invariant
InitScore ==
    /\ pc = "snapshot"
    /\ \/ metrics = ExampleSnapshot
       \/ \E n \in 0..MaxPages, t \in 0..MaxCount, i \in 0..MaxCount,
             l \in BOOLEAN, tc \in 0..ConfDen, sc \in 0..ConfDen,
             w \in 0..MaxWarnings :
             \E p \in 0..n, o \in 0..n :
                 metrics = Snapshot(n, p, o, t, i, l, tc, sc, w)
    /\ fetch_score = NoScore
    /\ args = [llm_enhance |-> FALSE, score_only |-> FALSE]
    /\ doc_pages = 0
    /\ page_num = 0
    /\ pages = <<>>
    /\ markdown_parts = <<>>
    /\ markdown_content = <<>>
    /\ markdown = <<>>
    /\ llm_result = "none"
    /\ output = NoOutput
    /\ raw_table = <<>>
    /\ table_md = <<>>
    /\ raw_text = <<>>
    /\ formatted_text = <<>>

CalculateFetchScore ==
    /\ pc = "snapshot"
    /\ fetch_score' = calculate_fetch_score(metrics)
    /\ pc' = "scored"
    /\ UNCHANGED fn_vars
    /\ UNCHANGED <<args, doc_pages, page_num, pages, metrics, markdown_parts,
                   markdown_content, markdown, llm_result, output>>

NextScore == CalculateFetchScore

SpecScore == InitScore /\ [][NextScore]_vars

\* ---------------------------------- the enhancement as a pure function
\* a markdown body of n characters c
Body(n, c) == [i \in 1..n |-> c]

\* bodies of a few characters, and bodies around the maximum input size
BodyLengths == (0..MaxShort) \cup ((max_chars - MaxExcess)..(max_chars + MaxExcess))
Bodies == { Body(n, c) : n \in BodyLengths, c \in {"a", "#", "\n"} }

InitEnhance ==
    /\ pc = "enhance"
    /\ markdown_content \in Bodies
    /\ markdown = markdown_content
    /\ llm_result = "none"
    /\ args = [llm_enhance |-> TRUE, score_only |-> FALSE]
    /\ doc_pages = 0
    /\ page_num = 0
    /\ pages = <<>>
    /\ metrics = ExtractionMetrics
    /\ markdown_parts = <<>>
    /\ fetch_score = NoScore
    /\ output = NoOutput
    /\ raw_table = <<>>
    /\ table_md = <<>>
    /\ raw_text = <<>>
    /\ formatted_text = <<>>

EnhanceWithLLM ==
    /\ pc = "enhance"
    /\ \E llm \in LLMOutcomes :
          /\ markdown' = enhance_with_llm(markdown, llm)
          /\ llm_result' = llm.kind
    /\ pc' = "returned"
    /\ UNCHANGED fn_vars
    /\ UNCHANGED <<args, doc_pages, page_num, pages, metrics, markdown_parts,
                   markdown_content, fetch_score, output>>

NextEnhance == EnhanceWithLLM

SpecEnhance == InitEnhance /\ [][NextEnhance]_vars

\* ------------------------------------- _table_to_markdown on its own
\* a cell of extract_tables: None, text to trim, text holding a line break
TableCells == { None, <<" ", "1">>, <<"a", "\n", "b">> }
\* a row: None, the empty row, or up to MaxCols cells
TableRows ==
    { None, <<>> } \cup UNION { [1..n -> TableCells] : n \in 1..MaxCols }
\* the jagged tables of up to MaxRows rows, and [["A","B"],["1"]]
JaggedTables ==
    UNION { [1..n -> TableRows] : n \in 0..MaxRows } \cup { Table1 }

InitTable ==
    /\ pc = "table"
    /\ raw_table \in JaggedTables
    /\ table_md = <<>>
    /\ raw_text = <<>>
    /\ formatted_text = <<>>
    /\ args = [llm_enhance |-> FALSE, score_only |-> FALSE]
    /\ doc_pages = 0
    /\ page_num = 0
    /\ pages = <<>>
    /\ metrics = ExtractionMetrics
    /\ markdown_parts = <<>>
    /\ markdown_content = <<>>
    /\ markdown = <<>>
    /\ fetch_score = NoScore
    /\ llm_result = "none"
    /\ output = NoOutput

\* one call of _table_to_markdown
TableToMarkdown ==
    /\ pc = "table"
    /\ table_md' = _table_to_markdown(raw_table)
    /\ pc' = "table_done"
    /\ UNCHANGED <<raw_table, raw_text, formatted_text>>
    /\ UNCHANGED main_vars

NextTable == TableToMarkdown

SpecTable == InitTable /\ [][NextTable]_vars

\* ------------------------------------------- _format_text on its own
\* lines of extracted text: blank ones, upper-case ones of 2, 79 and 80
\* characters, numbered headers, bullets, numbered list items, plain ones
SampleLines ==
    { <<>>,
      <<" ", "\t">>,
      <<" ", "A", "B", " ">>,
      [i \in 1..79 |-> "A"],
      [i \in 1..80 |-> "A"],
      <<"1", ".", "2", " ", "O", "v">>,
      <<"2", " ", "X", "y">>,
      <<"1", ".", " ", "I", "t">>,
      <<"1", ".", " ", "i", "t">>,
      <<"1", ".", " ", "I">>,
      <<"-", " ", "i", "t">>,
      <<"-", " ", "I", "T">>,
      <<" ", "*", " ", " ", "x", " ", "y", " ">>,
      <<"U+00C4", " ", "x">>,
      <<"-", "x">>,
      <<"i", "t", " ", "I", "s">> }
\* the texts of n lines
RECURSIVE TextsOf(_)
TextsOf(n) ==
    IF n = 1 THEN SampleLines
    ELSE { t \o <<"\n">> \o l : t \in TextsOf(n - 1), l \in SampleLines }
SampleTexts == UNION { TextsOf(n) : n \in 1..MaxLines }

InitFormat ==
    /\ pc = "format"
    /\ raw_text \in SampleTexts
    /\ formatted_text = <<>>
    /\ raw_table = <<>>
    /\ table_md = <<>>
    /\ args = [llm_enhance |-> FALSE, score_only |-> FALSE]
    /\ doc_pages = 0
    /\ page_num = 0
    /\ pages = <<>>
    /\ metrics = ExtractionMetrics
    /\ markdown_parts = <<>>
    /\ markdown_content = <<>>
    /\ markdown = <<>>
    /\ fetch_score = NoScore
    /\ llm_result = "none"
    /\ output = NoOutput

\* one call of _format_text
FormatText ==
    /\ pc = "format"
    /\ formatted_text' = _format_text(raw_text)
    /\ pc' = "formatted"
    /\ UNCHANGED <<raw_text, raw_table, table_md>>
    /\ UNCHANGED main_vars

NextFormat == FormatText

SpecFormat == InitFormat /\ [][NextFormat]_vars

\* --------------------------------------------------------------- claims
Scored == pc = "scored"

InRange(x) == 0 <= x /\ x <= Pts(100)

\* C1: for every snapshot that satisfies the data-model invariant, the three
\* reported component scores and overall_score lie in [0,100]; with
\* total_pages = 0 text_extraction is 0.
C1_ScoresInRange ==
    Scored =>
        /\ InRange(fetch_score.components.text_extraction)
        /\ InRange(fetch_score.components.structure_preservation)
        /\ InRange(fetch_score.components.completeness)
        /\ InRange(fetch_score.overall_score)
        /\ (metrics.total_pages = 0 =>
               fetch_score.components.text_extraction = 0)

\* a scored snapshot whose raw text score (100 + 20) needed the upper clamp
C1_Witness ==
    /\ pc = "scored"
    /\ metrics.total_pages > 0
    /\ metrics.pages_with_text = metrics.total_pages
    /\ metrics.text_confidence = Unit
    /\ metrics.structure_confidence = Unit
    /\ fetch_score.components.text_extraction = Pts(100)

IsExample == pc = "scored" /\ metrics = ExampleSnapshot

\* C2 (as stated): the documented example scores text_extraction 100,
\* structure_preservation 85, completeness 100, overall 95.5, Excellent.
C2_ExampleAsStated ==
    IsExample =>
        /\ fetch_score.components.text_extraction = Pts(100)
        /\ fetch_score.components.structure_preservation = Pts(85)
        /\ fetch_score.components.completeness = Pts(100)
        /\ fetch_score.overall_score = Tenths(955)
        /\ fetch_score.grade = "A - Excellent"

\* C2 (amended): the documented example scores text_extraction 100,
\* structure_preservation 75 (50 + 25), completeness 100, overall 92.5,
\* Excellent.
C2_ExampleAmended ==
    IsExample =>
        /\ fetch_score.components.text_extraction = Pts(100)
        /\ fetch_score.components.structure_preservation = Pts(75)
        /\ fetch_score.components.completeness = Pts(100)
        /\ fetch_score.overall_score = Tenths(925)
        /\ fetch_score.grade = "A - Excellent"

\* the documented example has been scored
C2_Witness == IsExample /\ fetch_score.tables_found = 2

\* C7: the grade of every score result is the inclusive lower-bound mapping
\* applied to the reported (rounded) overall_score.
C7_GradeOfReportedScore ==
    Scored => fetch_score.grade = _score_to_grade(fetch_score.overall_score)

\* C10: completeness is 100 - min(30, 5w) - (20 iff ocr_pages = total_pages
\* > 0); the all-OCR snapshot scores exactly 20 below the same snapshot with
\* ocr_pages = 0; the lower clamp never bites.
C10_Completeness ==
    Scored =>
        LET w == Len(metrics.warnings)
            allOcr == metrics.ocr_pages = metrics.total_pages
                      /\ metrics.total_pages > 0
            raw == 100 - Min(30, 5 * w) - (IF allOcr THEN 20 ELSE 0)
            noOcr == [metrics EXCEPT !.ocr_pages = 0]
        IN  /\ fetch_score.components.completeness = Pts(raw)
            /\ raw >= 50
            /\ (w >= 6 => fetch_score.components.completeness
                            = Pts(70 - (IF allOcr THEN 20 ELSE 0)))
            /\ (allOcr <=> fetch_score.components.completeness
                            = calculate_fetch_score(noOcr).components.completeness
                              - Pts(20))

\* an all-OCR snapshot with a saturated warning penalty has been scored
C10_Witness ==
    /\ pc = "scored"
    /\ Len(metrics.warnings) = 7
    /\ metrics.ocr_pages = metrics.total_pages
    /\ metrics.total_pages > 0
    /\ fetch_score.components.completeness = Pts(50)

\* extract has returned to main
Returned == pc \in {"extracted", "enhanced", "done"}
\* main's enhancement block has run
EnhanceRan == pc \in {"enhanced", "done"} /\ args.llm_enhance
LLMFailures == {"ImportError", "ClientError", "CallError"}

\* C3: the llm_enhanced flag of the final score is true only if the
\* enhancement was invoked and did not fail; a requested enhancement that was
\* unavailable or raised leaves the flag (and the +10 bonus) off.
C3_FlagReflectsOutcome ==
    /\ (Returned /\ fetch_score.llm_enhanced => llm_result = "Response")
    /\ (EnhanceRan /\ llm_result \in LLMFailures =>
           /\ ~fetch_score.llm_enhanced
           /\ fetch_score.components.structure_preservation
                = Round1(structure_preservation(
                             [metrics EXCEPT !.llm_enhanced = FALSE])))

\* C4: when the LLM collaborator is unavailable or its call fails,
\* enhance_with_llm returns exactly the markdown it was given, whatever its
\* length.
C4_FailureReturnsOriginal ==
    pc \in {"returned", "enhanced"} /\ llm_result \in LLMFailures
        => markdown = markdown_content

\* the positions at which sub occurs in s
Occurrences(s, sub) ==
    { k \in 1..(Len(s) - Len(sub) + 1) :
         s[k] = sub[1] /\ SubSeq(s, k, k + Len(sub) - 1) = sub }
Contains(s, sub) == Occurrences(s, sub) # {}

\* the page got text, from the backend or from OCR
HasText(page) ==
    \/ Truthy(page.text) /\ strip(page.text) # <<>>
    \/ /\ page.ocr.kind = "Text"
       /\ Truthy(page.ocr.text) /\ strip(page.ocr.text) # <<>>
\* no content element was found on the page
NoContent(page) ==
    ~HasText(page) /\ NonEmptyTables(page.tables) = <<>> /\ page.images = 0

\* C5: a page on which no content element was found contributes no fragment:
\* its page marker does not appear in the markdown extract returns.
C5_EmptyPageExcluded ==
    Returned =>
        \A i \in DOMAIN pages :
            NoContent(pages[i].page) =>
                ~Contains(markdown_content, PageMarker(pages[i].page_num))

Counts(m) == <<m.total_pages, m.pages_with_text, m.pages_with_tables,
               m.pages_with_images, m.tables_extracted, m.images_extracted,
               m.ocr_pages, Len(m.warnings)>>

CountsBounded ==
    /\ \A i \in DOMAIN Counts(metrics) : Counts(metrics)[i] >= 0
    /\ metrics.pages_with_text <= metrics.total_pages
    /\ metrics.pages_with_tables <= metrics.total_pages
    /\ metrics.pages_with_images <= metrics.total_pages
    /\ metrics.ocr_pages <= metrics.total_pages

CountsNeverDecrease ==
    \A i \in DOMAIN Counts(metrics) : Counts(metrics')[i] >= Counts(metrics)[i]

\* C6: at every point of a document run all counts are non-negative,
\* pages_with_text, pages_with_tables, pages_with_images and ocr_pages are at
\* most total_pages, and no count decreases from one step to the next.
C6_CountsBoundedMonotone == []CountsBounded /\ [][CountsNeverDecrease]_vars

\* every page of a two-page document had text, tables and images
C6_Witness ==
    /\ pc = "pages"
    /\ page_num = 2
    /\ metrics.total_pages = 2
    /\ metrics.pages_with_text = 2
    /\ metrics.pages_with_tables = 2
    /\ metrics.pages_with_images = 2
    /\ metrics.ocr_pages = 2
    /\ metrics.tables_extracted = 4

StartsWith(s, prefix) ==
    Len(s) >= Len(prefix) /\ SubSeq(s, 1, Len(prefix)) = prefix
\* what page n's text contributes to its fragment
TextContent(page) ==
    IF Truthy(page.text) /\ strip(page.text) # <<>>
    THEN PartSep \o _format_text(page.text)
    ELSE IF HasText(page)
    THEN PartSep \o OcrMarker \o _format_text(page.ocr.text)
    ELSE <<>>

\* md holds fragments in page order, and they are the n fragments collected:
\* occ[p] are the positions of page p's marker in md
InPageOrder(md, n) ==
    LET occ == [p \in 1..doc_pages |-> Occurrences(md, PageMarker(p))]
        marked == { p \in 1..doc_pages : occ[p] # {} }
        pos == [p \in marked |-> CHOOSE k \in occ[p] : TRUE]
        later(p) == { q \in marked : q > p }
        \* where the fragment of page p ends: at the next marker, or at the
        \* end of md
        stop == [p \in marked |->
                    IF later(p) = {} THEN Len(md) + 1
                    ELSE pos[CHOOSE q \in later(p) :
                                 \A o \in later(p) : q <= o]]
    IN  /\ \A p \in marked :
              /\ Cardinality(occ[p]) = 1
              /\ StartsWith(SubSeq(md, pos[p], stop[p] - 1),
                            PageMarker(p) \o TextContent(pages[p].page))
              /\ (later(p) # {} =>
                     /\ stop[p] - pos[p] >= Len(PageMarker(p)) + Len(PageBreak)
                     /\ SubSeq(md, stop[p] - Len(PageBreak), stop[p] - 1)
                          = PageBreak)
        /\ \A p, q \in marked : p < q => pos[p] < pos[q]
        /\ (marked # {} => \E p \in marked : pos[p] = 1)
        /\ Cardinality(marked) = n
        /\ ((\A i \in DOMAIN pages : HasText(pages[i].page)) =>
               marked = 1..doc_pages)

\* C8: the markdown extract returns holds the fragments in page order: each
\* page marker occurs at most once, markers appear in strictly ascending page
\* order, each page's content follows its own marker, consecutive fragments
\* are separated by the page break, and a document whose every page has text
\* has exactly one fragment per page.
C8_FragmentsInPageOrder ==
    pc = "extracted" => InPageOrder(markdown_content, Len(markdown_parts))

\* a two-page document, both pages with text, has been extracted
C8_Witness ==
    /\ pc = "extracted"
    /\ doc_pages = 2
    /\ \A i \in DOMAIN pages : HasText(pages[i].page)
    /\ Len(markdown_parts) = 2
    /\ Contains(markdown_content, PageMarker(1) \o PartSep)
    /\ Contains(markdown_content, PageBreak \o PageMarker(2) \o PartSep)

\* the warnings a page's degradations must have left
Recorded(entry) ==
    LET page == entry.page
        n == entry.page_num
        has(msg) == \E w \in DOMAIN metrics.warnings :
                        metrics.warnings[w] = Warning(n, msg)
    IN  /\ (~Truthy(page.text) /\ page.ocr.kind = "ImportError"
               => has("OCR libraries not available"))
        /\ (~Truthy(page.text) /\ page.ocr.kind = "Exception"
               => has("OCR failed"))
        /\ (~HasText(page) => has("No text extracted"))

ExtractCompleted ==
    /\ Len(pages) = doc_pages
    /\ \A i \in DOMAIN pages : pages[i].page_num = i
    /\ \A i \in DOMAIN pages : Recorded(pages[i])
    /\ fetch_score.total_pages = doc_pages
    /\ fetch_score.warnings = metrics.warnings

PageProcessed == page_num' = page_num + 1
\* the page that step processed, with whether OCR was called for it
Processed == pages'[page_num']
\* the backend gave the page text that is not empty after trimming
PrimaryText(page) == Truthy(page.text) /\ strip(page.text) # <<>>
\* OCR gave the page text
OcrText(page) ==
    /\ page.ocr.kind = "Text"
    /\ Truthy(page.ocr.text) /\ strip(page.ocr.text) # <<>>

\* C11: processing one page increments pages_with_tables by exactly one if at
\* least one non-empty table of the page was processed and leaves it unchanged
\* otherwise, so pages_with_tables <= tables_extracted after any pages.
C11_TablePageIffTableProcessed ==
    [][PageProcessed =>
          /\ metrics'.pages_with_tables = metrics.pages_with_tables +
                 (IF NonEmptyTables(Processed.page.tables) # <<>>
                  THEN 1 ELSE 0)
          /\ metrics'.pages_with_tables <= metrics'.tables_extracted]_vars

OcrOnlyWithoutText ==
    PageProcessed =>
        /\ Processed.ocr_called => ~PrimaryText(Processed.page)
        /\ Processed.ocr_called /\ OcrText(Processed.page) =>
              /\ metrics'.ocr_pages = metrics.ocr_pages + 1
              /\ metrics'.pages_with_text = metrics.pages_with_text + 1
              /\ metrics'.warnings = metrics.warnings
        /\ PrimaryText(Processed.page) =>
              /\ metrics'.pages_with_text = metrics.pages_with_text + 1
              /\ metrics'.ocr_pages = metrics.ocr_pages
              /\ metrics'.warnings = metrics.warnings

\* C12: OCR is called for a page only if the backend's text is empty after
\* trimming; when OCR gives text, ocr_pages and pages_with_text each grow by
\* one and no warning is appended; when the backend gives text,
\* pages_with_text grows by one and ocr_pages and warnings stay; and
\* ocr_pages <= pages_with_text in every state.
C12_OcrOnlyWhenTextEmpty ==
    /\ [][OcrOnlyWithoutText]_vars
    /\ [](metrics.ocr_pages <= metrics.pages_with_text)

\* two pages done: blank text recovered by OCR, then text from the backend
C12_Witness ==
    /\ pc = "pages"
    /\ page_num = 2
    /\ pages[1].page.text = BlankText
    /\ pages[1].ocr_called
    /\ OcrText(pages[1].page)
    /\ PrimaryText(pages[2].page)
    /\ ~pages[2].ocr_called
    /\ metrics.ocr_pages = 1
    /\ metrics.pages_with_text = 2
    /\ metrics.warnings = <<>>

\* C13: a page without primary text whose OCR is unavailable or fails appends
\* exactly one warning, so the warnings never outnumber the pages processed.
C13_OneWarningPerFailedPage ==
    [][PageProcessed =>
          /\ (Processed.ocr_called /\ ~OcrText(Processed.page) =>
                 Len(metrics'.warnings) = Len(metrics.warnings) + 1)
          /\ Len(metrics'.warnings) <= page_num']_vars

\* --------------------------------------------------- table rendering
\* the rows _table_to_markdown keeps
UsableRows(t) == SelectSeq(t, Truthy)
\* the text a cell contributes
CellText(cell) == IF Truthy(cell) THEN strip(cell) ELSE <<>>
\* the number of cells of a pipe-delimited line
CellCount(line) == Len(SelectSeq(line, LAMBDA ch : ch = "|")) - 1
\* row padded on the right with empty cells to n cells, as one line
PaddedLine(row, n) ==
    table_line([c \in 1..n |-> IF c <= Len(row) THEN CellText(row[c])
                               ELSE <<>>])
\* "| A | B |\n| --- | --- |\n| 1 |  |"
Table1Markdown ==
    <<"|", " ", "A", " ", "|", " ", "B", " ", "|", "\n",
      "|", " ", "-", "-", "-", " ", "|", " ", "-", "-", "-", " ", "|", "\n",
      "|", " ", "1", " ", "|", " ", " ", "|">>

\* C14: _table_to_markdown returns the empty string if the table has no
\* usable row; otherwise the output has one line more than there are usable
\* rows, every line has exactly max_cols cells (max_cols the length of the
\* longest usable row), and each usable row appears padded on the right with
\* empty cells; [["A","B"],["1"]] gives a 2-column table with row ["1",""].
C14_TablePaddedToMaxCols ==
    pc = "table_done" =>
        LET usable == UsableRows(raw_table)
            max_cols == SeqMax([r \in DOMAIN usable |-> Len(usable[r])])
            lines == split_lines(table_md)
        IN  /\ usable = <<>> => table_md = <<>>
            /\ usable # <<>> =>
                  /\ Len(lines) = Len(usable) + 1
                  /\ \A i \in DOMAIN lines : CellCount(lines[i]) = max_cols
                  /\ lines[1] = PaddedLine(usable[1], max_cols)
                  /\ \A r \in 2..Len(usable) :
                         lines[r + 1] = PaddedLine(usable[r], max_cols)
            /\ raw_table = Table1 => table_md = Table1Markdown

\* ----------------------------------------------------- text formatting
\* the rules of the classification that a trimmed, non-blank line matches
RulesMatched(s) ==
    (IF Len(s) < 80 /\ isupper(s) THEN {1} ELSE {})
    \cup (IF MatchesNumberedHeader(s) THEN {2} ELSE {})
    \cup (IF MatchesBullet(s) THEN {3} ELSE {})
    \cup (IF MatchesNumberedList(s) THEN {4} ELSE {})
    \cup {5}
\* the lowest-numbered of them
FirstRule(s) == CHOOSE k \in RulesMatched(s) : \A j \in RulesMatched(s) : k <= j
\* what rule k makes of the trimmed line
Rendered(k, s) ==
    CASE k = 1 -> <<"#", "#", " ">> \o title(s)
      [] k = 2 -> <<"#", "#", "#", " ">> \o s
      [] k = 3 -> <<"-", " ">> \o strip(Drop(s, 2))
      [] OTHER -> s
\* the output line of an input line
ExpectedLine(line) ==
    IF strip(line) = <<>> THEN <<>>
    ELSE Rendered(FirstRule(strip(line)), strip(line))
\* line occurs in the input and out is the output line at the same place
LineBecomes(line, out) ==
    LET ins == split_lines(raw_text)
        outs == split_lines(formatted_text)
    IN  \A i \in DOMAIN ins : ins[i] = line => outs[i] = out

\* C15: _format_text gives one output line per input line, a blank line for a
\* blank one, and renders every other line by the lowest-numbered rule it
\* matches: (1) level-2 heading in title case, (2) level-3 heading verbatim,
\* (3) "- " and the trimmed remainder, (4), (5) the trimmed line; "- IT"
\* becomes "## - It" and "1. It" becomes "### 1. It".
C15_FirstMatchingRuleWins ==
    pc = "formatted" =>
        LET ins == split_lines(raw_text)
            outs == split_lines(formatted_text)
        IN  /\ Len(outs) = Len(ins)
            /\ \A i \in DOMAIN ins : outs[i] = ExpectedLine(ins[i])
            /\ LineBecomes(<<"-", " ", "I", "T">>,
                           <<"#", "#", " ", "-", " ", "I", "t">>)
            /\ LineBecomes(<<"1", ".", " ", "I", "t">>,
                           <<"#", "#", "#", " ", "1", ".", " ", "I", "t">>)

\* an upper-case bullet line and a numbered item were formatted, each
\* matching several rules
C15_Witness ==
    /\ pc = "formatted"
    /\ raw_text = <<"-", " ", "I", "T", "\n", "1", ".", " ", "I", "t">>
    /\ RulesMatched(<<"-", " ", "I", "T">>) = {1, 3, 5}
    /\ RulesMatched(<<"1", ".", " ", "I", "t">>) = {2, 4, 5}
    /\ formatted_text = <<"#", "#", " ", "-", " ", "I", "t", "\n",
                          "#", "#", "#", " ", "1", ".", " ", "I", "t">>

====
